---- MODULE Spec2Model ----
(***************************************************************************)
(* Model of the Holo2 backend: the /api/process handler of backend/app.py  *)
(* with its lazily initialised global model, and the inference pipeline of *)
(* backend/model.py (pre-resize arithmetic, parse_reasoning, validation of *)
(* the final answer against ClickCoordinates).                             *)
(*                                                                         *)
(* Four specifications share the variables:                                *)
(*   Spec         the backend process serving requests on worker threads   *)
(*   SpecResize   the pre-resize step applied to every modelled image size *)
(*   SpecParse    parse_reasoning applied to every bounded token sequence  *)
(*   SpecValidate the validation tail of process_image_task applied to     *)
(*                every modelled final-answer document                     *)
(***************************************************************************)
EXTENDS Integers, Sequences, FiniteSets, TLC

VARIABLES
    phase,          \* "boot" | "serving" | "crashed" : life of the backend process
    model,          \* global `model` of backend/app.py (None or an instance id)
    processor,      \* global `processor` of backend/app.py
    initCalls,      \* number of calls of initialize_model() so far
    initReturned,   \* number of those calls that returned a (model, processor) pair
    th,             \* per worker thread: position in process_image and its locals
    all_ids,        \* SpecParse: the token sequence handed to parse_reasoning
    parsed,         \* SpecParse: what parse_reasoning returned
    answer,         \* SpecValidate: the final-answer text (as a JSON document)
    validated,      \* SpecValidate: the bundle process_image_task returned
    size,           \* SpecResize: image.size on entry
    working         \* SpecResize: image.size after the pre-resize step

vars == <<phase, model, processor, initCalls, initReturned, th,
          all_ids, parsed, answer, validated, size, working>>

(***************************************************************************)
(* Bounds of the model.                                                    *)
(***************************************************************************)
NumThreads == 2     \* worker threads serving requests concurrently
MaxInit == 2        \* initialize_model() calls explored
MaxLen == 4         \* longest token sequence given to parse_reasoning
SmallSide == 4      \* image sides 1..SmallSide
Near == 3           \* image sides MAX_DIMENSION-Near .. MAX_DIMENSION+Near
MaxMult == 8        \* image sides k * MAX_DIMENSION/2 for k in 1..MaxMult

(***************************************************************************)
(* Program constants.                                                      *)
(***************************************************************************)
None == 0
MAX_DIMENSION == 1280
REASONING_START == 151667
REASONING_END == 151668

Max(a, b) == IF a >= b THEN a ELSE b
Min(a, b) == IF a <= b THEN a ELSE b
Abs(a) == IF a >= 0 THEN a ELSE 0 - a

(***************************************************************************)
(* Pre-resize step of process_image_task.                                  *)
(***************************************************************************)
\* Image sides explored: tiny ones, the ones around MAX_DIMENSION, multiples
\* of MAX_DIMENSION/2, and a few real screenshot sides.
Sides ==
    (1..SmallSide)
        \cup ((MAX_DIMENSION - Near)..(MAX_DIMENSION + Near))
        \cup {k * (MAX_DIMENSION \div 2) : k \in 1..MaxMult}
        \cup {537, 1432, 1440, 2139, 5000}

\* The (side, longest) pairs among Sides for which the double product
\* side * (MAX_DIMENSION / longest) lands just below the exact integer quotient,
\* so that int() truncates to one less: int(537 * (1280/1432)) = 479 and
\* int(2139 * (1280/2139)) = 1279.  For every other pair of Sides the double
\* product truncates to the floor of the exact quotient.
RoundsBelow == {<<537, 1432>>, <<2139, 2139>>}

\* int(side * ratio) with ratio = MAX_DIMENSION / longest, in double arithmetic.
ScaledSide(side, longest) ==
    LET q == (side * MAX_DIMENSION) \div longest
    IN  IF <<side, longest>> \in RoundsBelow THEN q - 1 ELSE q

\* Mutant: the ratio is taken from the width alone.
PreResizeWidthOnly(sz) ==
    IF sz[1] > MAX_DIMENSION
    THEN <<ScaledSide(sz[1], sz[1]), ScaledSide(sz[2], sz[1])>>
    ELSE sz

\* new_size of lines 99-102: the size of the image after the pre-resize step,
\* the input size when max(image.size) <= MAX_DIMENSION.
PreResize(sz) ==
    IF Max(sz[1], sz[2]) > MAX_DIMENSION
    THEN <<ScaledSide(sz[1], Max(sz[1], sz[2])), ScaledSide(sz[2], Max(sz[1], sz[2]))>>
    ELSE sz

\* Image.resize raises ValueError ("height and width must be > 0") for a
\* target size with a zero side.
ResizeRaises(sz) == sz[1] < 1 \/ sz[2] < 1

(***************************************************************************)
(* parse_reasoning.                                                        *)
(***************************************************************************)
\* Token ids explored: the two sentinels, "\n" (198), a letter (64) and the
\* special token <|im_end|> (151645).
Vocab == {REASONING_START, REASONING_END, 198, 64, 151645}
SpecialTokens == {151645}
NewlineTokens == {198}

\* list.index(v) as a 0-based index; -1 stands for ValueError.
IndexOf(s, v) ==
    IF \E i \in 1..Len(s) : s[i] = v
    THEN (CHOOSE i \in 1..Len(s) : s[i] = v /\ \A j \in 1..(i - 1) : s[j] # v) - 1
    ELSE 0 - 1

\* s[a:b] of Python for 0 <= a.
Slice(s, a, b) ==
    LET hi == Min(b, Len(s))
    IN  IF a >= hi THEN <<>> ELSE [i \in 1..(hi - a) |-> s[a + i]]

\* processor.decode(ids, skip_special_tokens=True): the text of the tokens that
\* are not special, one unit of text per token.
decode(ids) == SelectSeq(ids, LAMBDA t : t \notin SpecialTokens)

RECURSIVE LStrip(_)
LStrip(text) ==
    IF text # <<>> /\ Head(text) \in NewlineTokens THEN LStrip(Tail(text)) ELSE text

RECURSIVE RStrip(_)
RStrip(text) ==
    IF text # <<>> /\ text[Len(text)] \in NewlineTokens
    THEN RStrip(SubSeq(text, 1, Len(text) - 1))
    ELSE text

\* str.strip("\n")
StripNL(text) == RStrip(LStrip(text))

\* Lines 61-64: the first REASONING_END anywhere in the sequence, len(all_ids)
\* when there is none.
think_end_index(ids) ==
    IF IndexOf(ids, REASONING_END) # 0 - 1
    THEN IndexOf(ids, REASONING_END)
    ELSE Len(ids)

\* Lines 56-59: the first REASONING_START, -1 when there is none.
think_start_index(ids) == IndexOf(ids, REASONING_START)

\* Line 68: the tokens decoded into thinking_content (none without a start).
thinking_ids(ids) ==
    IF think_start_index(ids) # 0 - 1
    THEN Slice(ids, think_start_index(ids) + 1, think_end_index(ids))
    ELSE <<>>

\* Lines 72 and 77: the tokens decoded into content.
content_ids(ids) ==
    IF think_start_index(ids) # 0 - 1
    THEN Slice(ids, think_end_index(ids) + 1, Len(ids))
    ELSE ids

parse_reasoning(ids) ==
    [content  |-> StripNL(decode(content_ids(ids))),
     thinking |-> IF think_start_index(ids) # 0 - 1
                  THEN StripNL(decode(thinking_ids(ids)))
                  ELSE <<>>]

(***************************************************************************)
(* Validation of the final answer: ClickCoordinates.model_validate_json.   *)
(***************************************************************************)
COORD_MIN == 0
COORD_MAX == 1000

\* Integers a JSON number or numeric string of the answer may denote.
IntSamples == {0 - 1, 0, 500, 1000, 1001}

\* A JSON value of field x or y: an integer literal ("int"), a float literal
\* with zero fractional part such as 250.0 ("float"), a float with a fraction
\* such as 250.5 ("frac"), a string of digits such as "500" ("str"), any other
\* string ("text"), true/false ("bool"), null, or the field is missing.
JsonValues ==
    {[k |-> kk, v |-> n] : kk \in {"int", "float", "str"}, n \in IntSamples}
        \cup {[k |-> "bool", v |-> b] : b \in {0, 1}}
        \cup {[k |-> "frac", v |-> 250], [k |-> "text", v |-> 0],
              [k |-> "null", v |-> 0], [k |-> "missing", v |-> 0]}

Missing == [k |-> "missing", v |-> 0]
NotJson == [form |-> "notjson", x |-> Missing, y |-> Missing]

\* A final-answer text, by what a JSON parser makes of it: not JSON at all
\* ("click here"), JSON that is not an object ([1, 2]), or an object.
Docs ==
    {NotJson, [form |-> "nonobject", x |-> Missing, y |-> Missing]}
        \cup {[form |-> "object", x |-> vx, y |-> vy] : vx \in JsonValues, vy \in JsonValues}

\* Conversion of a JSON value to `int` by a model that does not set strict
\* mode: integers, floats without fractional part, numeric strings and
\* booleans are accepted and converted.
int_lax(val) == val.k \in {"int", "float", "str", "bool"}

\* x: int = Field(ge=0, le=1000)
field_ok(val) == int_lax(val) /\ val.v >= COORD_MIN /\ val.v <= COORD_MAX

\* ClickCoordinates.model_validate_json(content) succeeds
model_validate_json(doc) ==
    doc.form = "object" /\ field_ok(doc.x) /\ field_ok(doc.y)

\* Lines 149-180 of process_image_task: the success bundle or the parse-error
\* bundle.  The pixel coordinates and the processed image, which depend on the
\* library's smart_resize, are left out of the bundle.
validate_and_bundle(task, content, doc, thinking_content) ==
    IF model_validate_json(doc)
    THEN [task        |-> task,
          coordinates |-> [x |-> doc.x.v, y |-> doc.y.v],
          thinking    |-> thinking_content,
          raw_content |-> content]
    ELSE [error       |-> "Failed to parse result",
          raw_content |-> content,
          thinking    |-> thinking_content]

(***************************************************************************)
(* process_image_task as a whole.                                          *)
(***************************************************************************)
\* Tokens whose text is a whole JSON document, for the sequences generate
\* returns in Spec: 9001 reads {"x": 500, "y": 250}, 9002 reads
\* {"x": 1000, "y": 1001}, 9003 reads {"x": "500", "y": 250.0}.
JsonTokens == {9001, 9002, 9003}

JsonOfToken(tok) ==
    CASE tok = 9001 -> [form |-> "object", x |-> [k |-> "int", v |-> 500],
                                           y |-> [k |-> "int", v |-> 250]]
      [] tok = 9002 -> [form |-> "object", x |-> [k |-> "int", v |-> 1000],
                                           y |-> [k |-> "int", v |-> 1001]]
      [] tok = 9003 -> [form |-> "object", x |-> [k |-> "str", v |-> 500],
                                           y |-> [k |-> "float", v |-> 250]]

\* What a JSON parser makes of a decoded text: a document when the text is
\* exactly one JSON token, not JSON otherwise (plain words, or characters
\* before or after the document).
JsonOfText(text) ==
    IF Len(text) = 1 /\ text[1] \in JsonTokens THEN JsonOfToken(text[1]) ELSE NotJson

\* Token sequences model.generate returns in Spec.  The sequence holds the
\* prompt followed by the new tokens; the chat template closes the prompt with
\* an empty reasoning block.
GenOutputs ==
    {<<64, REASONING_START, REASONING_END, 198, 9001, 151645>>,
     <<64, REASONING_START, REASONING_END, 198, 9002, 151645>>,
     <<64, REASONING_START, REASONING_END, 198, 9003, 151645>>,
     <<64, REASONING_START, 64, REASONING_END, 198, 64>>,
     <<9001>>}

\* What the collaborators of one call do: smart_resize raises or not (it rejects
\* extreme aspect ratios), model.generate raises or returns a token sequence.
Envs ==
    {[sr_raises |-> b, gen_raises |-> g, ids |-> i] :
        b \in BOOLEAN, g \in BOOLEAN, i \in GenOutputs}

ProcessingFailed(stage, gen) ==
    [result |-> [error |-> "Processing failed"], generated |-> gen, stage |-> stage]

\* process_image_task(model, processor, image, task): the returned bundle,
\* whether model.generate was called, and the stage that failed.
process_image_task(m, p, image_size, task, env) ==
    IF Max(image_size[1], image_size[2]) > MAX_DIMENSION /\ ResizeRaises(PreResize(image_size))
    THEN ProcessingFailed("preresize", FALSE)                 \* line 102 raises
    ELSE IF p = None
    THEN ProcessingFailed("no_processor", FALSE)              \* line 106 raises
    ELSE IF env.sr_raises
    THEN ProcessingFailed("smart_resize", FALSE)              \* line 107 raises
    ELSE IF m = None
    THEN ProcessingFailed("no_model", FALSE)                  \* line 135 raises
    ELSE IF env.gen_raises
    THEN ProcessingFailed("generate", TRUE)                   \* line 138 raises
    ELSE LET pr  == parse_reasoning(env.ids)
             res == validate_and_bundle(task, pr.content, JsonOfText(pr.content),
                                        pr.thinking)
         IN  [result    |-> res,
              generated |-> TRUE,
              stage     |-> IF "error" \in DOMAIN res THEN "validate" ELSE "none"]

(***************************************************************************)
(* The /api/process handler of backend/app.py.                             *)
(***************************************************************************)
Threads == 1..NumThreads

NoImage == [kind |-> "none", size |-> <<0, 0>>]

\* The image field of a request: absent or empty, not decodable as an image,
\* or an image of some size.
Images ==
    {[kind |-> "absent", size |-> <<0, 0>>], [kind |-> "garbage", size |-> <<0, 0>>]}
        \cup {[kind |-> "ok", size |-> sz] : sz \in {<<1, 5000>>, <<2560, 1440>>}}

\* A request: its body is not JSON (request.json raises), is JSON that is
\* falsy ({} or null), or is an object with an image and a task.
Requests ==
    {[body |-> "nojson", image |-> NoImage, task |-> ""],
     [body |-> "falsy", image |-> [kind |-> "absent", size |-> <<0, 0>>], task |-> ""]}
        \cup {[body |-> "dict", image |-> im, task |-> tk] :
                 im \in Images, tk \in {"", "click the OK button"}}

NoReq == [body |-> "none", image |-> NoImage, task |-> ""]
NoResult == [none |-> TRUE]
NoResp == [status |-> 0, body |-> [none |-> TRUE]]

Idle ==
    [pc |-> "idle", tmp |-> None, req |-> NoReq, result |-> NoResult,
     resp |-> NoResp, generated |-> FALSE, stage |-> "none",
     args_set |-> <<FALSE, FALSE>>]

\* Mutant: the model is reloaded only when both globals are None.
NeedsInitBoth(m, p) == m = None /\ p = None

\* Line 64: `model is None or processor is None`.  The two globals are read one
\* after the other; as neither is ever set back to None, the test decides as
\* one read of both at the moment of the second read.
NeedsInit(m, p) == m = None \/ p = None

\* Lines 72-95: the response the handler returns before calling the model, or
\* "proceed" when the inputs pass.
Validate(req) ==
    IF req.body = "nojson"
    THEN [status |-> 500, body |-> [success |-> FALSE, error |-> "exception text"],
          stage |-> "request_json"]                                          \* 72, 121-128
    ELSE IF req.body = "falsy"
    THEN [status |-> 400, body |-> [error |-> "No data provided"], stage |-> "no_data"]
    ELSE IF req.image.kind = "absent"
    THEN [status |-> 400, body |-> [error |-> "No image provided"], stage |-> "no_image"]
    ELSE IF req.task = ""
    THEN [status |-> 400, body |-> [error |-> "No task provided"], stage |-> "no_task"]
    ELSE IF req.image.kind = "garbage"
    THEN [status |-> 400, body |-> [error |-> "Invalid image data"], stage |-> "decode"]
    ELSE [status |-> 0, body |-> [none |-> TRUE], stage |-> "proceed"]

\* Lines 105-119: the response built from the bundle process_image_task returned.
Respond(result) ==
    IF "error" \in DOMAIN result
    THEN [status |-> 500,
          body   |-> [success |-> FALSE, error |-> result.error,
                      processing_time |-> "ms"]]
    ELSE [status |-> 200,
          body   |-> [success |-> TRUE, result |-> result, processing_time |-> "ms"]]

\* Lines 28-38: the module body.  With WERKZEUG_RUN_MAIN = 'true' or DEBUG off
\* the model is loaded at import; a failing load ends the process.  Otherwise
\* both globals start as None.
Startup ==
    /\ phase = "boot"
    /\ \/ /\ initCalls < MaxInit
          /\ initCalls' = initCalls + 1
          /\ \/ /\ model' = initCalls + 1
                /\ processor' = initCalls + 1
                /\ initReturned' = initReturned + 1
                /\ phase' = "serving"
             \/ /\ phase' = "crashed"
                /\ UNCHANGED <<model, processor, initReturned>>
       \/ /\ phase' = "serving"
          /\ UNCHANGED <<model, processor, initCalls, initReturned>>
    /\ UNCHANGED <<th, all_ids, parsed, answer, validated, size, working>>

\* A worker thread enters process_image.
Receive(t) ==
    /\ phase = "serving"
    /\ th[t].pc = "idle"
    /\ th' = [th EXCEPT ![t] = [Idle EXCEPT !.pc = "check"]]
    /\ UNCHANGED <<phase, model, processor, initCalls, initReturned,
                   all_ids, parsed, answer, validated, size, working>>

\* Line 64.
Check(t) ==
    /\ th[t].pc = "check"
    /\ th' = [th EXCEPT ![t].pc = IF NeedsInit(model, processor) THEN "init" ELSE "try"]
    /\ UNCHANGED <<phase, model, processor, initCalls, initReturned,
                   all_ids, parsed, answer, validated, size, working>>

\* Line 66, the call: initialize_model() returns a fresh pair or raises.  The
\* call is outside the try block, so an exception leaves process_image.
InitCall(t) ==
    /\ th[t].pc = "init"
    /\ initCalls < MaxInit
    /\ initCalls' = initCalls + 1
    /\ \/ /\ th' = [th EXCEPT ![t].pc = "store_model", ![t].tmp = initCalls + 1]
          /\ initReturned' = initReturned + 1
       \/ /\ th' = [th EXCEPT ![t].pc = "fault"]
          /\ UNCHANGED initReturned
    /\ UNCHANGED <<phase, model, processor,
                   all_ids, parsed, answer, validated, size, working>>

\* Line 66, the assignment: the two globals are stored one after the other.
StoreModel(t) ==
    /\ th[t].pc = "store_model"
    /\ model' = th[t].tmp
    /\ th' = [th EXCEPT ![t].pc = "store_processor"]
    /\ UNCHANGED <<phase, processor, initCalls, initReturned,
                   all_ids, parsed, answer, validated, size, working>>

StoreProcessor(t) ==
    /\ th[t].pc = "store_processor"
    /\ processor' = th[t].tmp
    /\ th' = [th EXCEPT ![t].pc = "try", ![t].tmp = None]
    /\ UNCHANGED <<phase, model, initCalls, initReturned,
                   all_ids, parsed, answer, validated, size, working>>

\* Lines 68-97: the request is read and its inputs validated.
ReadRequest(t) ==
    /\ th[t].pc = "try"
    /\ \E req \in Requests :
          LET v == Validate(req)
          IN  IF v.stage = "proceed"
              THEN th' = [th EXCEPT ![t].pc = "call", ![t].req = req]
              ELSE th' = [th EXCEPT ![t].pc = "done", ![t].req = req,
                                    ![t].stage = v.stage,
                                    ![t].resp = [status |-> v.status, body |-> v.body]]
    /\ UNCHANGED <<phase, model, processor, initCalls, initReturned,
                   all_ids, parsed, answer, validated, size, working>>

\* Lines 100-119: process_image_task runs with the globals as they are now,
\* and its bundle becomes the response.  args_set records, for each of the two
\* globals passed, whether it was set.
CallTask(t) ==
    /\ th[t].pc = "call"
    /\ \E env \in Envs :
          LET r == process_image_task(model, processor, th[t].req.image.size,
                                      th[t].req.task, env)
          IN  th' = [th EXCEPT ![t].pc = "done",
                               ![t].args_set = <<model # None, processor # None>>,
                               ![t].result = r.result,
                               ![t].generated = r.generated,
                               ![t].stage = r.stage,
                               ![t].resp = Respond(r.result)]
    /\ UNCHANGED <<phase, model, processor, initCalls, initReturned,
                   all_ids, parsed, answer, validated, size, working>>

\* The response, or the exception that left process_image, is handed to the
\* server and the thread is free for the next request.
Finish(t) ==
    /\ th[t].pc \in {"done", "fault"}
    /\ th' = [th EXCEPT ![t] = Idle]
    /\ UNCHANGED <<phase, model, processor, initCalls, initReturned,
                   all_ids, parsed, answer, validated, size, working>>

NotParsed ==
    [done |-> FALSE, content |-> <<>>, thinking |-> <<>>,
     content_ids |-> <<>>, thinking_ids |-> <<>>]
NoSize == <<0, 0>>

Init ==
    /\ phase = "boot"
    /\ model = None
    /\ processor = None
    /\ initCalls = 0
    /\ initReturned = 0
    /\ th = [t \in Threads |-> Idle]
    /\ all_ids = <<>>
    /\ parsed = NotParsed
    /\ answer = NotJson
    /\ validated = NoResult
    /\ size = NoSize
    /\ working = NoSize

Next ==
    \/ Startup
    \/ \E t \in Threads : Receive(t)
    \/ \E t \in Threads : Check(t)
    \/ \E t \in Threads : InitCall(t)
    \/ \E t \in Threads : StoreModel(t)
    \/ \E t \in Threads : StoreProcessor(t)
    \/ \E t \in Threads : ReadRequest(t)
    \/ \E t \in Threads : CallTask(t)
    \/ \E t \in Threads : Finish(t)

Spec == Init /\ [][Next]_vars

(***************************************************************************)
(* The pure steps of the pipeline, each applied to every bounded input.    *)
(***************************************************************************)
ServerAtRest ==
    /\ phase = "boot"
    /\ model = None
    /\ processor = None
    /\ initCalls = 0
    /\ initReturned = 0
    /\ th = [t \in Threads |-> Idle]

InitResize ==
    /\ ServerAtRest
    /\ size \in Sides \X Sides
    /\ working = NoSize
    /\ all_ids = <<>>
    /\ parsed = NotParsed
    /\ answer = NotJson
    /\ validated = NoResult

\* Lines 98-101: new_size is computed from image.size.
PreResizeStep ==
    /\ working = NoSize
    /\ working' = PreResize(size)
    /\ UNCHANGED <<phase, model, processor, initCalls, initReturned, th,
                   all_ids, parsed, answer, validated, size>>

SpecResize == InitResize /\ [][PreResizeStep]_vars

TokenSeqs == UNION {[1..n -> Vocab] : n \in 0..MaxLen}

InitParse ==
    /\ ServerAtRest
    /\ all_ids \in TokenSeqs
    /\ parsed = NotParsed
    /\ answer = NotJson
    /\ validated = NoResult
    /\ size = NoSize
    /\ working = NoSize

\* Line 146: content, thinking_content = parse_reasoning(generated_ids, processor);
\* the token slices that were decoded are recorded beside the two texts.
ParseStep ==
    /\ ~parsed.done
    /\ parsed' = [done         |-> TRUE,
                  content      |-> parse_reasoning(all_ids).content,
                  thinking     |-> parse_reasoning(all_ids).thinking,
                  content_ids  |-> content_ids(all_ids),
                  thinking_ids |-> thinking_ids(all_ids)]
    /\ UNCHANGED <<phase, model, processor, initCalls, initReturned, th,
                   all_ids, answer, validated, size, working>>

SpecParse == InitParse /\ [][ParseStep]_vars

InitValidate ==
    /\ ServerAtRest
    /\ answer \in Docs
    /\ validated = NoResult
    /\ all_ids = <<>>
    /\ parsed = NotParsed
    /\ size = NoSize
    /\ working = NoSize

\* Lines 149-180 for the final-answer text `answer`.
ValidateStep ==
    /\ "none" \in DOMAIN validated
    /\ validated' = validate_and_bundle("click the OK button", answer, answer, <<>>)
    /\ UNCHANGED <<phase, model, processor, initCalls, initReturned, th,
                   all_ids, parsed, answer, size, working>>

SpecValidate == InitValidate /\ [][ValidateStep]_vars

(***************************************************************************)
(* Properties.                                                             *)
(***************************************************************************)

\* C1: initialize_model() completes at most once in one backend process,
\* whatever the interleaving of startup and concurrent requests.
C1_InitializedAtMostOnce == initReturned <= 1

\* The partition the specification defines: the start boundary is the first
\* REASONING_START, the end boundary the first REASONING_END after it, or the
\* end of the sequence.
SpecEndBoundary(ids) ==
    LET st == IndexOf(ids, REASONING_START) + 1
    IN  IF \E i \in (st + 1)..Len(ids) : ids[i] = REASONING_END
        THEN CHOOSE i \in (st + 1)..Len(ids) :
                 ids[i] = REASONING_END /\ \A j \in (st + 1)..(i - 1) : ids[j] # REASONING_END
        ELSE Len(ids) + 1

SpecReasoningIds(ids) ==
    IF IndexOf(ids, REASONING_START) = 0 - 1
    THEN <<>>
    ELSE SubSeq(ids, IndexOf(ids, REASONING_START) + 2, SpecEndBoundary(ids) - 1)

SpecAnswerIds(ids) ==
    IF IndexOf(ids, REASONING_START) = 0 - 1
    THEN ids
    ELSE SubSeq(ids, SpecEndBoundary(ids) + 1, Len(ids))

\* C2: parse_reasoning returns the partition the specification defines:
\* reasoning is the tokens strictly between the first REASONING_START and the
\* first REASONING_END after it (or the end), the answer the tokens after that
\* end boundary, and the two texts are these tokens decoded and trimmed.
C2_ParseIsSpecPartition ==
    parsed.done =>
        /\ parsed.thinking_ids = SpecReasoningIds(all_ids)
        /\ parsed.content_ids = SpecAnswerIds(all_ids)
        /\ parsed.thinking = StripNL(decode(SpecReasoningIds(all_ids)))
        /\ parsed.content = StripNL(decode(SpecAnswerIds(all_ids)))

\* C3: when validation of the final answer fails, the response of
\* process_image carries the error together with the raw final-answer text and
\* the reasoning text that process_image_task returned.
C3_ParseErrorKeepsDiagnostics ==
    \A t \in Threads :
        (th[t].pc = "done" /\ th[t].stage = "validate") =>
            /\ "error" \in DOMAIN th[t].resp.body
            /\ "raw_content" \in DOMAIN th[t].resp.body
            /\ "thinking" \in DOMAIN th[t].resp.body
            /\ th[t].resp.body.raw_content = th[t].result.raw_content
            /\ th[t].resp.body.thinking = th[t].result.thinking

\* C4: a request whose task is empty is answered 'No task provided', whatever
\* its other fields, and model.generate is not called for it.
C4_EmptyTaskRejectedFirst ==
    \A t \in Threads :
        (th[t].pc = "done" /\ th[t].req.body = "dict" /\ th[t].req.task = "") =>
            /\ th[t].resp.status = 400
            /\ th[t].resp.body = [error |-> "No task provided"]
            /\ ~th[t].generated

\* The failure kind of the stage at which a request failed.
FailureKind(stage) ==
    CASE stage \in {"no_image", "decode", "preresize"} -> "InvalidImage"
      [] stage = "no_task" -> "EmptyTask"
      [] stage = "generate" -> "GenerationFailure"
      [] stage = "validate" -> "ParseError"
      [] OTHER -> "other"

\* What the caller sees of a failure: the HTTP status and the error text up
\* to the exception's own message.
Outcome(resp) == <<resp.status, resp.body.error>>

\* C5: two failed requests whose failures are of different kinds among
\* InvalidImage, EmptyTask, GenerationFailure and ParseError are reported with
\* different outcomes.
C5_FailureKindsDistinguishable ==
    \A t1, t2 \in Threads :
        ( /\ th[t1].pc = "done" /\ th[t2].pc = "done"
          /\ FailureKind(th[t1].stage) # "other"
          /\ FailureKind(th[t2].stage) # "other"
          /\ FailureKind(th[t1].stage) # FailureKind(th[t2].stage) )
        => Outcome(th[t1].resp) # Outcome(th[t2].resp)

\* The field is a JSON integer within [0, 1000].
IntegerInRange(val) == val.k = "int" /\ val.v >= 0 /\ val.v <= 1000

\* C6: process_image_task returns the success bundle only for a JSON object
\* whose x and y are integers in [0, 1000], with exactly these coordinates,
\* and the error bundle without coordinates for every other text.
C6_ValidationStrict ==
    "none" \notin DOMAIN validated =>
        IF answer.form = "object" /\ IntegerInRange(answer.x) /\ IntegerInRange(answer.y)
        THEN /\ "coordinates" \in DOMAIN validated
             /\ validated.coordinates = [x |-> answer.x.v, y |-> answer.y.v]
        ELSE /\ "error" \in DOMAIN validated
             /\ "coordinates" \notin DOMAIN validated

C8_NoUncaughtFault == \A t \in Threads : th[t].pc # "fault"

Called(t) == th[t].pc = "done" /\ "none" \notin DOMAIN th[t].result

\* C9: process_image_task is never called with the global model or processor
\* being None, and once both globals are set neither is set back to None.
C9_InitBeforeUse ==
    /\ [](\A t \in Threads : Called(t) => (th[t].args_set[1] /\ th[t].args_set[2]))
    /\ [][(model # None /\ processor # None) => (model' # None /\ processor' # None)]_vars

\* C9 witness: a thread has called process_image_task after two threads loaded
\* the model concurrently and stored their pairs interleaved, so that the
\* globals hold the model of one load and the processor of the other.
C9_Witness ==
    \E t \in Threads :
        /\ Called(t)
        /\ th[t].generated
        /\ initReturned >= 2
        /\ model # None /\ processor # None /\ model # processor

\* C10: the size computed by the pre-resize step has both sides at least 1.
C10_PreResizeNonZero == working # NoSize => (working[1] >= 1 /\ working[2] >= 1)

====
